---- MODULE Spec2Model ----
(***************************************************************************)
(* Model of the config loader of package conf (src/loader.go).            *)
(*                                                                         *)
(* Strings (paths, user names, file contents read as text) are sequences   *)
(* of one-character strings, so that filepath.Join, strings.TrimSpace and  *)
(* the slice expression of isTest are computed character by character.     *)
(***************************************************************************)
EXTENDS Integers, Sequences, FiniteSets, TLC

(* ---------------------------------------------------------------- bounds *)

\* longest tail of os.Args (arguments after the executable's name)
MaxArgs == 2

\* largest concrete PreservedArgs the owner sets
MaxPreserved == 1

(* ------------------------------------------------------- flag constants *)

UseTest == 1

UseDotUser == 2

UseArgumentPaths == 4

UseExecutablePath == 8

IgnoreMissingFiles == 16

IgnoreInvalidFiles == 32

UseFlag == -1

AllFlags == 0..63

RECURSIVE BitAnd(_, _)
\* the & of two non-negative ints
BitAnd(a, b) ==
  IF a = 0 \/ b = 0 THEN 0
  ELSE (a % 2) * (b % 2) + 2 * BitAnd(a \div 2, b \div 2)

\* Loader.Implements
Implements(flags, behaviour) == BitAnd(flags, behaviour) > 0

(* ------------------------------------------------------ string primitives *)

Slash == "/"

Dot == "."

DotDot == <<".", ".">>

JsonExt == <<".", "j", "s", "o", "n">>

TestSuffix == <<".", "t", "e", "s", "t">>

Space == {" ", "\n", "\t"}

RECURSIVE TrimLeft(_)
TrimLeft(s) ==
  IF s # <<>> /\ Head(s) \in Space THEN TrimLeft(Tail(s)) ELSE s

RECURSIVE TrimRight(_)
TrimRight(s) ==
  IF s # <<>> /\ s[Len(s)] \in Space THEN TrimRight(SubSeq(s, 1, Len(s) - 1)) ELSE s

\* strings.TrimSpace
TrimSpace(s) == TrimRight(TrimLeft(s))

RECURSIVE SplitPath(_, _)
\* the segments of s between separators; cur is the segment being read
SplitPath(s, cur) ==
  IF s = <<>> THEN <<cur>>
  ELSE IF Head(s) = Slash THEN <<cur>> \o SplitPath(Tail(s), <<>>)
  ELSE SplitPath(Tail(s), Append(cur, Head(s)))

RECURSIVE CleanSegs(_, _, _)
\* filepath.Clean's pass over the segments: out is the cleaned stack
CleanSegs(segs, rooted, out) ==
  IF segs = <<>> THEN out
  ELSE LET sg == Head(segs)
           rest == Tail(segs)
       IN IF sg = <<>> \/ sg = <<Dot>> THEN CleanSegs(rest, rooted, out)
          ELSE IF sg = DotDot
               THEN IF out # <<>> /\ out[Len(out)] # DotDot
                    THEN CleanSegs(rest, rooted, SubSeq(out, 1, Len(out) - 1))
                    ELSE IF rooted THEN CleanSegs(rest, rooted, out)
                    ELSE CleanSegs(rest, rooted, Append(out, sg))
               ELSE CleanSegs(rest, rooted, Append(out, sg))

RECURSIVE JoinSegs(_)
JoinSegs(segs) ==
  IF segs = <<>> THEN <<>>
  ELSE IF Len(segs) = 1 THEN Head(segs)
  ELSE Head(segs) \o <<Slash>> \o JoinSegs(Tail(segs))

\* filepath.Clean
Clean(p) ==
  IF p = <<>> THEN <<Dot>>
  ELSE LET rooted == Head(p) = Slash
           body == JoinSegs(CleanSegs(SplitPath(p, <<>>), rooted, <<>>))
       IN IF rooted THEN <<Slash>> \o body
          ELSE IF body = <<>> THEN <<Dot>> ELSE body

\* filepath.Join: empty elements are ignored, the result is cleaned
Join(elems) ==
  LET ne == SelectSeq(elems, LAMBDA e : e # <<>>)
  IN IF ne = <<>> THEN <<>> ELSE Clean(JoinSegs(ne))


(* ------------------------------------------------------------ environment *)

\* candidate arguments of the process, in the order they are passed
ArgNames == << <<"a">>, <<"b">>, <<"c">>, <<"d">> >>

\* names the executable is invoked by: empty, four characters, five
\* characters not ending in .test, and a test binary
Runfiles ==
  { <<>>, <<"t", "e", "s", "t">>, <<"a", "t", "e", "s", "t">>,
    <<"x", ".", "t", "e", "s", "t">> }

NoDoc == [k \in {} |-> 0]

Keys == {"k1", "k2", "k3"}

\* a file the filesystem does not hold (ioutil.ReadFile fails)
Missing == [exists |-> FALSE, text |-> <<>>, json |-> "syntax", doc |-> NoDoc]

TextFile(t) == [exists |-> TRUE, text |-> t, json |-> "syntax", doc |-> NoDoc]

\* a file holding a JSON object: json = "ok" when every field fits the
\* target, "type" when the text is well-formed but some field does not fit
\* the target's type; doc holds the fields that fit
JsonFile(kind, d) == [exists |-> TRUE, text |-> <<"{", "}">>, json |-> kind, doc |-> d]

Doc1 == ("k1" :> 1)

Doc2 == ("k1" :> 2) @@ ("k2" :> 2)

\* what RootPath/.user may be
UserFiles ==
  { Missing,
    TextFile(<<"a", "l", "i", "c", "e", "\n">>),
    TextFile(<<" ", "\n">>),
    TextFile(<<".", ".", "/", "x">>) }

\* config files of a world in which every file that exists is valid
PlainFiles == { Missing, JsonFile("ok", NoDoc) }

\* config files without fields: missing, malformed, valid
BareFiles == { Missing, TextFile(<<"{">>), JsonFile("ok", NoDoc) }

\* a file whose text breaks off inside a JSON object: d holds the fields
\* written out before the break
Truncated(d) == [exists |-> TRUE, text |-> <<"{">>, json |-> "syntax", doc |-> d]

\* config files with fields
DocFiles ==
  { Missing, Truncated(Doc1), JsonFile("ok", Doc1), JsonFile("ok", Doc2),
    JsonFile("type", Doc2) }

\* what user.Current() gives: an error, or a user name
OsUsers == { [ok |-> FALSE, name |-> <<>>], [ok |-> TRUE, name |-> <<"b", "o", "b">>] }

\* what osext.ExecutableFolder() gives
ExeFolders == { [ok |-> FALSE, dir |-> <<>>], [ok |-> TRUE, dir |-> <<"/", "x">>] }

\* directories the owner sets RootPath to
OwnerRoots == { <<"r">> }

ZeroConfig == [k \in Keys |-> 0]

VARIABLES
  osArgs,        \* os.Args
  flagArgs,      \* flag.Args()
  osUser,        \* the result of user.Current()
  confFiles,     \* the files a candidate path may turn out to be
  reuse,         \* whether the owner goes on using the Loader after a Load
  fs,            \* the files read so far in the current call, by path
  RootPath, PreservedArgs, lookupPaths, loadedPaths, skippedPaths, loaderFlags,
  pc,            \* "idle", "loop" (inside Load's range loop), "panic", "noloader"
  idx,           \* position of the range loop in lookupPaths
  err,           \* what the last Load returned: "none" before the first return
  config,        \* the value handed to Load
  config0,       \* config as it was when the current call began
  stale          \* whether the lists were non-empty when the current call began

vars ==
  << osArgs, flagArgs, osUser, confFiles, reuse, fs, RootPath, PreservedArgs,
     lookupPaths, loadedPaths, skippedPaths, loaderFlags, pc, idx, err, config,
     config0, stale >>

envVars == << osArgs, flagArgs, osUser, confFiles, reuse >>

(* ----------------------------------------------------------- construction *)

\* NewLoader
NewLoader(flags, exe) ==
  IF Implements(flags, UseExecutablePath)
  THEN [ok |-> exe.ok, RootPath |-> exe.dir, PreservedArgs |-> UseFlag, loaderFlags |-> flags]
  ELSE [ok |-> TRUE, RootPath |-> <<Dot>>, PreservedArgs |-> UseFlag, loaderFlags |-> flags]

Suffixes(s) == { SubSeq(s, i, Len(s)) : i \in 1..(Len(s) + 1) }

InitWith(flagSet, runfiles, tails, users, files, reuseSet) ==
  /\ \E rf \in runfiles, t \in tails : osArgs = <<rf>> \o t
  /\ flagArgs \in Suffixes(Tail(osArgs))
  /\ osUser \in users
  /\ confFiles = files
  /\ reuse \in reuseSet
  /\ fs = NoDoc
  /\ \E flags \in flagSet, exe \in ExeFolders :
       LET l == NewLoader(flags, exe)
       IN /\ RootPath = l.RootPath
          /\ PreservedArgs = l.PreservedArgs
          /\ loaderFlags = l.loaderFlags
          /\ pc = IF l.ok THEN "idle" ELSE "noloader"
  /\ lookupPaths = <<>>
  /\ loadedPaths = <<>>
  /\ skippedPaths = <<>>
  /\ idx = 0
  /\ err = "none"
  /\ config = ZeroConfig
  /\ config0 = ZeroConfig
  /\ stale = FALSE

DistinctTails == { SubSeq(ArgNames, 1, n) : n \in 0..MaxArgs }

RepeatedTails == { [i \in 1..n |-> ArgNames[1]] : n \in 2..MaxArgs }


(* ------------------------------------------------------- path resolution *)

\* mutant: no argument is skipped besides the preserved ones
SplitSizeNoExecutable(k) == k

\* splitSize := l.PreservedArgs + 1
SplitSize(k) == k + 1

\* os.Args[splitSize:]
ArgsFrom(args, n) == SubSeq(args, n + 1, Len(args))

\* The argument branch of createLookupPaths. returned tells whether the
\* function returns from inside the branch; paths is what the branch has
\* assigned to lookupPaths. In the UseFlag case the assignment is not
\* followed by a return.
ArgumentBranch(flags, k, args, fargs) ==
  IF Implements(flags, UseArgumentPaths)
  THEN IF k = UseFlag
       THEN [returned |-> FALSE, paths |-> IF Len(fargs) > 0 THEN fargs ELSE <<>>]
       ELSE IF Len(args) > SplitSize(k)
            THEN [returned |-> TRUE, paths |-> ArgsFrom(args, SplitSize(k))]
            ELSE [returned |-> FALSE, paths |-> <<>>]
  ELSE [returned |-> FALSE, paths |-> <<>>]

\* Loader.isTest: runfile[len(runfile)-5:] == ".test"; the slice expression
\* panics when the name has fewer than five characters
isTest(runfile) ==
  IF Len(runfile) - 5 < 0 THEN "panic"
  ELSE IF SubSeq(runfile, Len(runfile) - 5 + 1, Len(runfile)) = TestSuffix THEN "true"
  ELSE "false"

\* l.Implements(UseTest) && l.isTest(): isTest runs only with UseTest set
TestMode(flags, args) ==
  IF Implements(flags, UseTest) THEN isTest(args[1]) ELSE "false"

BasePath(root) == Join(<<root, <<"c", "o", "n", "f", "i", "g">> \o JsonExt>>)

\* filepath.Join(l.RootPath, "config", "mixins", name + ".json")
MixinPath(root, name) ==
  Join(<<root, <<"c", "o", "n", "f", "i", "g">>, <<"m", "i", "x", "i", "n", "s">>,
         name \o JsonExt>>)

DotUserPath(root) == Join(<<root, <<".", "u", "s", "e", "r">>>>)

\* mutant: the OS user is asked first, the .user file only when that fails
userOsFirst(flags, dotUser, os) ==
  IF os.ok THEN os.name
  ELSE IF Implements(flags, UseDotUser) /\ dotUser.exists THEN TrimSpace(dotUser.text)
  ELSE <<>>

\* Loader.user; dotUser is the file at RootPath/.user
user(flags, dotUser, os) ==
  IF Implements(flags, UseDotUser) /\ dotUser.exists
  THEN TrimSpace(dotUser.text)
  ELSE IF os.ok THEN os.name ELSE <<>>

\* the paths appended after the base path; mode is the value
\* of the test condition, usr of l.user() (read only when mode is "false")
Mixins(flags, root, mode, usr) ==
  IF mode = "true" THEN <<MixinPath(root, <<"t", "e", "s", "t">>)>>
  ELSE IF Len(usr) > 0 THEN <<MixinPath(root, usr)>>
  ELSE <<>>

\* whether createLookupPaths reads RootPath/.user
ReadsDotUser(flags, k, args, fargs) ==
  /\ ~ArgumentBranch(flags, k, args, fargs).returned
  /\ TestMode(flags, args) = "false"
  /\ Implements(flags, UseDotUser)

\* Loader.createLookupPaths: the value of lookupPaths it leaves, and whether
\* it panics (in isTest, after the base path has been assigned)
createLookupPaths(flags, root, k, args, fargs, dotUser, os) ==
  LET b == ArgumentBranch(flags, k, args, fargs)
      mode == TestMode(flags, args)
  IN IF b.returned THEN [panic |-> FALSE, paths |-> b.paths]
     ELSE IF mode = "panic" THEN [panic |-> TRUE, paths |-> <<BasePath(root)>>]
     ELSE [panic |-> FALSE,
           paths |-> <<BasePath(root)>>
                     \o Mixins(flags, root, mode, user(flags, dotUser, os))]

(* ------------------------------------------------------------------ Load *)

\* the file at path p once it has been read: what fs holds, else f
Known(fsv, p, f) == IF p \in DOMAIN fsv THEN fsv[p] ELSE f

Discover(fsv, p, f) == IF p \in DOMAIN fsv THEN fsv ELSE fsv @@ (p :> f)

\* mutant: the lists of the previous call are kept
KeepPaths(old) == old

\* l.loadedPaths = []string{} and l.skippedPaths = []string{}
ResetPaths(old) == <<>>

\* mutant: a layer only fills the keys that no earlier layer has set
MergeKeepOld(cfg, d) ==
  [k \in Keys |-> IF k \in DOMAIN d /\ cfg[k] = 0 THEN d[k] ELSE cfg[k]]

\* the fields of d written over cfg
Merge(cfg, d) == [k \in Keys |-> IF k \in DOMAIN d THEN d[k] ELSE cfg[k]]

\* mutant: the text is decoded as it is read, without a validity pass first
UnmarshalStreaming(file, cfg) ==
  [err |-> file.json # "ok", config |-> Merge(cfg, file.doc)]

\* json.Unmarshal(configData, config): a text that is not well-formed JSON
\* is rejected before the target is touched; a well-formed one is decoded
\* field by field, the fields that do not fit are skipped and reported
Unmarshal(file, cfg) ==
  IF file.json = "syntax" THEN [err |-> TRUE, config |-> cfg]
  ELSE [err |-> file.json = "type", config |-> Merge(cfg, file.doc)]

\* mutant: a read error is tolerated under either Ignore flag
OnReadErrorEither(flags) ==
  IF ~Implements(flags, IgnoreMissingFiles + IgnoreInvalidFiles) THEN "read" ELSE "skipped"

\* a failed read: the read error is returned, or the path is appended to
\* skippedPaths and the loop continues
OnReadError(flags) ==
  IF ~Implements(flags, IgnoreMissingFiles) THEN "read" ELSE "skipped"

\* mutant: the loop continues without recording the path
OnDecodeErrorDrop(flags) ==
  IF ~Implements(flags, IgnoreInvalidFiles) THEN "decode" ELSE "dropped"

\* a failed decode: the decode error is returned, or the path is appended to
\* skippedPaths and the loop continues
OnDecodeError(flags) ==
  IF ~Implements(flags, IgnoreInvalidFiles) THEN "decode" ELSE "skipped"

\* what one pass of the range loop does with the file at the candidate path:
\* "loaded", "skipped", or the error it returns
Outcome(flags, file, cfg) ==
  IF ~file.exists THEN OnReadError(flags)
  ELSE IF Unmarshal(file, cfg).err THEN OnDecodeError(flags)
  ELSE "loaded"

\* the owner sets RootPath between calls
SetRootPath ==
  /\ pc = "idle"
  /\ reuse \/ err = "none"
  /\ \E r \in OwnerRoots : RootPath' = r
  /\ RootPath' # RootPath
  /\ UNCHANGED << envVars, fs, PreservedArgs, lookupPaths, loadedPaths, skippedPaths,
                  loaderFlags, pc, idx, err, config, config0, stale >>

\* the owner sets PreservedArgs between calls
SetPreservedArgs ==
  /\ pc = "idle"
  /\ reuse \/ err = "none"
  /\ \E k \in {UseFlag} \cup (0..MaxPreserved) : PreservedArgs' = k
  /\ PreservedArgs' # PreservedArgs
  /\ UNCHANGED << envVars, fs, RootPath, lookupPaths, loadedPaths, skippedPaths,
                  loaderFlags, pc, idx, err, config, config0, stale >>

\* Load up to the range loop: createLookupPaths, then the lists are reset.
\* The caller hands in the value of the previous call or a fresh one.
LoadBegin ==
  /\ pc = "idle"
  /\ reuse \/ err = "none"
  /\ \E f \in UserFiles, c \in {config, ZeroConfig} :
       LET reads == ReadsDotUser(loaderFlags, PreservedArgs, osArgs, flagArgs)
           r == createLookupPaths(loaderFlags, RootPath, PreservedArgs, osArgs,
                                  flagArgs, f, osUser)
       IN /\ fs' = IF reads THEN (DotUserPath(RootPath) :> f) ELSE NoDoc
          /\ lookupPaths' = r.paths
          /\ config' = c
          /\ config0' = c
          /\ stale' = (loadedPaths \o skippedPaths # <<>>)
          /\ IF r.panic
             THEN /\ pc' = "panic"
                  /\ UNCHANGED << loadedPaths, skippedPaths, idx >>
             ELSE /\ pc' = "loop"
                  /\ loadedPaths' = ResetPaths(loadedPaths)
                  /\ skippedPaths' = ResetPaths(skippedPaths)
                  /\ idx' = 1
  /\ UNCHANGED << envVars, RootPath, PreservedArgs, loaderFlags, err >>

\* one pass of the range loop over lookupPaths
LoadStep ==
  /\ pc = "loop"
  /\ idx <= Len(lookupPaths)
  /\ \E f \in confFiles :
       LET p == lookupPaths[idx]
           file == Known(fs, p, f)
           o == Outcome(loaderFlags, file, config)
       IN /\ fs' = Discover(fs, p, f)
          /\ config' = IF file.exists THEN Unmarshal(file, config).config ELSE config
          /\ loadedPaths' = IF o = "loaded" THEN Append(loadedPaths, p) ELSE loadedPaths
          /\ skippedPaths' = IF o = "skipped" THEN Append(skippedPaths, p) ELSE skippedPaths
          /\ IF o \in {"read", "decode"}
             THEN /\ pc' = "idle"
                  /\ err' = o
                  /\ idx' = idx
             ELSE /\ pc' = "loop"
                  /\ err' = err
                  /\ idx' = idx + 1
  /\ UNCHANGED << envVars, RootPath, PreservedArgs, lookupPaths, loaderFlags, config0, stale >>

\* the range loop is over: return nil
LoadDone ==
  /\ pc = "loop"
  /\ idx > Len(lookupPaths)
  /\ pc' = "idle"
  /\ err' = "nil"
  /\ UNCHANGED << envVars, fs, RootPath, PreservedArgs, lookupPaths, loadedPaths,
                  skippedPaths, loaderFlags, idx, config, config0, stale >>

Next == SetRootPath \/ SetPreservedArgs \/ LoadBegin \/ LoadStep \/ LoadDone

\* flags that matter to path resolution, with every file present and valid
\* or missing, one Load per Loader
InitPaths ==
  InitWith(AllFlags, Runfiles, DistinctTails, OsUsers, PlainFiles, {FALSE})

SpecPaths == InitPaths /\ [][Next]_vars


\* files with fields, missing, malformed and ill-typed; one Load per Loader
InitLoad ==
  InitWith(AllFlags, {<<"a", "t", "e", "s", "t">>, <<"x", ".", "t", "e", "s", "t">>},
           DistinctTails \cup RepeatedTails, OsUsers, DocFiles, {FALSE})

SpecLoad == InitLoad /\ [][Next]_vars

\* the flags that decide the candidates and their classification; the Loader
\* is used for one Load after another, RootPath and PreservedArgs are changed
\* and the files may change between two calls
InitCalls ==
  InitWith({f \in AllFlags : BitAnd(f, UseExecutablePath) = 0},
           {<<>>, <<"a", "t", "e", "s", "t">>},
           DistinctTails, {u \in OsUsers : u.ok}, BareFiles, {TRUE})

SpecCalls == InitCalls /\ [][Next]_vars


(* ================================================================ claims *)

Has(behaviour) == Implements(loaderFlags, behaviour)

Range(s) == { s[i] : i \in DOMAIN s }

IsPrefix(p, s) == Len(p) <= Len(s) /\ SubSeq(s, 1, Len(p)) = p

EndsWith(s, suffix) ==
  Len(s) >= Len(suffix) /\ SubSeq(s, Len(s) - Len(suffix) + 1, Len(s)) = suffix

\* the path that the text root/rel names
PathText(root, rel) == Clean(root \o <<Slash>> \o rel)

ConfigJson == <<"c", "o", "n", "f", "i", "g", ".", "j", "s", "o", "n">>

MixinsText == <<"c", "o", "n", "f", "i", "g", "/", "m", "i", "x", "i", "n", "s", "/">>

\* text without the white space around it
Trimmed(text) ==
  CHOOSE t \in { SubSeq(text, i, j) : i \in 1..(Len(text) + 1), j \in 0..Len(text) } :
    /\ \E i \in 1..(Len(text) + 1), j \in 0..Len(text) :
         /\ t = SubSeq(text, i, j)
         /\ \A n \in 1..Len(text) : (n < i \/ n > j) => text[n] \in Space
    /\ t # <<>> => (t[1] \notin Space /\ t[Len(t)] \notin Space)

\* Load has resolved its candidates (SpecPaths and SpecLoad: the Loader's
\* fields are as they were when the call began)
Called == pc = "loop" \/ err # "none"

\* Load has returned
Returned == pc = "idle" /\ err # "none"

\* the argument vector is longer than PreservedArgs + 1, PreservedArgs >= 0
ConcreteOverride ==
  /\ Has(UseArgumentPaths)
  /\ PreservedArgs >= 0
  /\ Len(osArgs) > PreservedArgs + 1

\* sentinel mode with a non-empty remainder
SentinelOverride ==
  /\ Has(UseArgumentPaths)
  /\ PreservedArgs = UseFlag
  /\ Len(flagArgs) > 0

\* C1: with UseArgumentPaths and PreservedArgs = UseFlag, a non-empty
\* flag remainder is the whole candidate sequence Load iterates over.
C1_SentinelRemainderIsSequence ==
  (SentinelOverride /\ Called) => lookupPaths = flagArgs

\* C2: with UseArgumentPaths and PreservedArgs = k >= 0, a raw argument
\* vector longer than k+1 makes the candidate sequence the raw arguments from
\* index k+1 on, and nothing else; resolution does not fail on the way.
C2_ConcreteCountUsesArguments ==
  ConcreteOverride =>
    /\ pc # "panic"
    /\ Called => lookupPaths = [i \in 1..(Len(osArgs) - PreservedArgs - 1) |->
                                  osArgs[PreservedArgs + 1 + i]]

C2_Witness ==
  /\ pc = "loop"
  /\ ConcreteOverride
  /\ PreservedArgs = 1
  /\ Len(osArgs) = 3
  /\ lookupPaths = <<osArgs[3]>>

\* C3: when the argument branch does not short-circuit, the candidate
\* sequence starts with RootPath/config.json and has at most one more
\* element, a path under RootPath/config/mixins/.
C3_DefaultSequenceShape ==
  (Called /\ ~ConcreteOverride /\ ~SentinelOverride) =>
    /\ Len(lookupPaths) \in {1, 2}
    /\ lookupPaths[1] = PathText(RootPath, ConfigJson)
    /\ Len(lookupPaths) = 2 =>
         /\ IsPrefix(PathText(RootPath, MixinsText) \o <<Slash>>, lookupPaths[2])
         /\ Len(lookupPaths[2]) > Len(PathText(RootPath, MixinsText)) + 1

\* the user identity as the priority rule gives it
Identity ==
  LET p == DotUserPath(RootPath)
  IN IF Has(UseDotUser) /\ p \in DOMAIN fs /\ fs[p].exists THEN Trimmed(fs[p].text)
     ELSE IF osUser.ok THEN osUser.name
     ELSE <<>>

\* C4: in the default sequence the mixin is test.json when UseTest is set
\* and the executable's name ends in .test; otherwise it is {user}.json for
\* the trimmed content of RootPath/.user (UseDotUser, file readable), else
\* the OS user name, else nothing; an empty identity appends no mixin, and
\* there is never more than one mixin.
C4_MixinByPriority ==
  (Called /\ ~ConcreteOverride) =>
    /\ lookupPaths # <<>>
    /\ IF Has(UseTest) /\ EndsWith(osArgs[1], TestSuffix)
       THEN Tail(lookupPaths) =
              <<PathText(RootPath, MixinsText \o <<"t", "e", "s", "t">> \o JsonExt)>>
       ELSE /\ Has(UseDotUser) => DotUserPath(RootPath) \in DOMAIN fs
            /\ Tail(lookupPaths) =
                 IF Identity = <<>> THEN <<>>
                 ELSE <<PathText(RootPath, MixinsText \o Identity \o JsonExt)>>

C4_Witness ==
  /\ pc = "loop"
  /\ ~ConcreteOverride
  /\ Has(UseTest) /\ Has(UseDotUser)
  /\ ~EndsWith(osArgs[1], TestSuffix)
  /\ osUser.ok
  /\ fs[DotUserPath(RootPath)].text = <<"a", "l", "i", "c", "e", "\n">>
  /\ RootPath = <<"/", "x">>
  /\ lookupPaths[2] = <<"/", "x">> \o <<Slash>> \o MixinsText \o <<"a", "l", "i", "c", "e">> \o JsonExt

\* C10: the test-mode predicate evaluates without failure for every name
\* of the executable and holds exactly when the name ends in .test, so a
\* Load with UseTest never crashes on the name's length.
C10_isTestTotal ==
  /\ pc # "panic"
  /\ (Called /\ Has(UseTest) /\ ~ConcreteOverride) =>
       (EndsWith(osArgs[1], TestSuffix)
          <=> Tail(lookupPaths) =
                <<PathText(RootPath, MixinsText \o <<"t", "e", "s", "t">> \o JsonExt)>>)


(* ------------------------------------------------------ claims about Load *)

\* the file Load found at candidate i (i a position the loop has reached)
FileAt(i) == fs[lookupPaths[i]]

\* number of candidates the loop has gone past
Passed == idx - 1

RECURSIVE Interleaves(_, _, _)
\* c is a, b merged: each of a and b in its own order, nothing else
Interleaves(a, b, c) ==
  IF c = <<>> THEN a = <<>> /\ b = <<>>
  ELSE \/ a # <<>> /\ Head(a) = Head(c) /\ Interleaves(Tail(a), b, Tail(c))
       \/ b # <<>> /\ Head(b) = Head(c) /\ Interleaves(a, Tail(b), Tail(c))

RECURSIVE IsSubsequence(_, _)
IsSubsequence(a, c) ==
  IF a = <<>> THEN TRUE
  ELSE IF c = <<>> THEN FALSE
  ELSE IF Head(a) = Head(c) THEN IsSubsequence(Tail(a), Tail(c))
  ELSE IsSubsequence(a, Tail(c))

\* C5: during and after a Load call the two lists hold only candidates of
\* the call, no candidate is in both, each list is in candidate order; after
\* a return without error they account for every candidate, after a return
\* with an error exactly for the candidates before the failing one.
C5_Partition ==
  Called =>
    /\ Range(loadedPaths) \cup Range(skippedPaths) \subseteq Range(lookupPaths)
    /\ Range(loadedPaths) \cap Range(skippedPaths) = {}
    /\ IsSubsequence(loadedPaths, lookupPaths)
    /\ IsSubsequence(skippedPaths, lookupPaths)
    /\ Interleaves(loadedPaths, skippedPaths, SubSeq(lookupPaths, 1, Passed))
    /\ (Returned /\ err = "nil") => Passed = Len(lookupPaths)
    /\ (Returned /\ err # "nil") =>
         /\ idx \in 1..Len(lookupPaths)
         /\ Outcome(loaderFlags, FileAt(idx), config0) = err

C5_Witness ==
  /\ Returned
  /\ err = "nil"
  /\ Len(lookupPaths) = 2
  /\ Len(loadedPaths) = 1
  /\ Len(skippedPaths) = 1
  /\ Has(IgnoreInvalidFiles)
  /\ FileAt(1).exists /\ FileAt(1).json = "type"

\* C6: after any Load call that returns, whatever the earlier calls left
\* behind and whatever was changed in between, loadedPaths and skippedPaths
\* hold the candidates this call went past, classified by the files this
\* call found, and nothing else; the lists are empty when the loop starts.
C6_NoAccumulation ==
  /\ (pc = "loop" /\ idx = 1) => (loadedPaths = <<>> /\ skippedPaths = <<>>)
  /\ Returned =>
       LET done == SubSeq(lookupPaths, 1, Passed)
           valid(p) == fs[p].exists /\ fs[p].json = "ok"
       IN /\ loadedPaths = SelectSeq(done, valid)
          /\ skippedPaths = SelectSeq(done, LAMBDA p : ~valid(p))

C6_Witness ==
  /\ Returned
  /\ stale
  /\ err = "read"
  /\ loadedPaths = <<lookupPaths[1]>>
  /\ skippedPaths = <<>>
  /\ PreservedArgs = 0

\* C7: a candidate whose read fails is appended to skippedPaths and the scan
\* goes on when IgnoreMissingFiles is set (candidates [A, B], A missing, B
\* valid: no error, skippedPaths = [A], loadedPaths = [B]); without that
\* flag, with or without IgnoreInvalidFiles, Load returns the read error at
\* once, the path is in neither list and no later candidate is read.
C7_MissingFilePolicy ==
  Called =>
    /\ \A i \in 1..Passed :
         ~FileAt(i).exists =>
           /\ Has(IgnoreMissingFiles)
           /\ lookupPaths[i] \in Range(skippedPaths)
           /\ lookupPaths[i] \notin Range(loadedPaths)
    /\ (Returned /\ idx <= Len(lookupPaths) /\ ~FileAt(idx).exists) =>
         /\ ~Has(IgnoreMissingFiles)
         /\ err = "read"
         /\ lookupPaths[idx] \notin Range(loadedPaths) \cup Range(skippedPaths)
         /\ \A j \in (idx + 1)..Len(lookupPaths) :
              lookupPaths[j] \in DOMAIN fs => lookupPaths[j] \in Range(SubSeq(lookupPaths, 1, idx))
    /\ (Returned /\ err = "read") => ~FileAt(idx).exists
    /\ (/\ Returned /\ Has(IgnoreMissingFiles) /\ Len(lookupPaths) = 2
        /\ Range(lookupPaths) \subseteq DOMAIN fs
        /\ ~FileAt(1).exists
        /\ FileAt(2).exists /\ FileAt(2).json = "ok") =>
         /\ err = "nil"
         /\ skippedPaths = <<lookupPaths[1]>>
         /\ loadedPaths = <<lookupPaths[2]>>
         /\ config = Merge(config0, FileAt(2).doc)

C7_Witness ==
  /\ Returned
  /\ Has(IgnoreMissingFiles)
  /\ ~Has(IgnoreInvalidFiles)
  /\ Len(lookupPaths) = 2
  /\ ~FileAt(1).exists
  /\ FileAt(2) = JsonFile("ok", Doc2)
  /\ skippedPaths = <<lookupPaths[1]>>
  /\ loadedPaths = <<lookupPaths[2]>>

Layered(layers, k) ==
  LET setters == { i \in DOMAIN layers : k \in DOMAIN layers[i] }
  IN IF setters = {} THEN config0[k]
     ELSE LET last == CHOOSE i \in setters : \A j \in setters : j <= i
          IN layers[last][k]

\* the fields of the candidates recorded in loadedPaths
LoadedFields ==
  [i \in 1..Len(lookupPaths) |->
     IF FileAt(i).exists /\ FileAt(i).json = "ok" THEN FileAt(i).doc ELSE NoDoc]

\* the fields of the candidates whose text is well-formed
DecodedFields ==
  [i \in 1..Len(lookupPaths) |->
     IF FileAt(i).exists /\ FileAt(i).json \in {"ok", "type"} THEN FileAt(i).doc ELSE NoDoc]

\* C9: after a Load without error the target is the initial target with
\* the layers of loadedPaths applied in candidate order: a key holds the
\* value of the latest loaded layer that sets it, else its prior value, and
\* a skipped candidate contributes nothing.
C9_LayeredMerge ==
  (Returned /\ err = "nil") => \A k \in Keys : config[k] = Layered(LoadedFields, k)

\* C9 amended: the layers are those of loadedPaths and, of skippedPaths,
\* the well-formed documents skipped for a field's type, which contribute
\* their fitting fields; missing and malformed candidates contribute nothing.
C9_LayeredMergeDecoded ==
  (Returned /\ err = "nil") => \A k \in Keys : config[k] = Layered(DecodedFields, k)

C9_Witness ==
  /\ Returned
  /\ err = "nil"
  /\ Len(lookupPaths) = 2
  /\ FileAt(1) = JsonFile("ok", Doc1)
  /\ FileAt(2) = JsonFile("ok", Doc2)
  /\ loadedPaths = lookupPaths
  /\ config = ("k1" :> 2) @@ ("k2" :> 2) @@ ("k3" :> 0)

====
